---- MODULE Spec2Model ----
(***************************************************************************)
(* The descent-direction strategies of package optimize: BFGS              *)
(* (src/unnamed/part_000) and Newton (src/newton.go), driven through       *)
(* Init / InitDirection / NextDirection by a line search.                  *)
(*                                                                         *)
(* Numbers.  float64 values are modelled exactly.  BFGS quantities are     *)
(* rationals <<num, den>> (den > 0, lowest terms); a division by zero      *)
(* gives the absorbing value NaN, which stands for every non-finite        *)
(* float.  Newton's Hessian entries and tau are whole numbers of           *)
(* thousandths (the unit is the 0.001 of newton.go:111 and :131), its      *)
(* gradient entries are whole numbers and its direction is rational.       *)
(*                                                                         *)
(* Matrices.  A mat64.SymDense keeps its upper triangle; BFGS.invHess is   *)
(* modelled with its flat backing array, because InitDirection re-slices   *)
(* the old array.  Newton's matrices are sequences of rows.                *)
(***************************************************************************)
EXTENDS Integers, Sequences, FiniteSets, TLC

\* Number of Init / NextDirection calls explored in one run.
MaxCalls == 4

\* newton.go:14
maxNewtonModifications == 20
\* newton.go:59, the default of Increase
DefaultIncrease == 5
\* newton.go:111 and :131: 0.001 is one unit of the fixed-point values
Milli == 1000

Min(a, b) == IF a < b THEN a ELSE b
Max(a, b) == IF a > b THEN a ELSE b
Abs(i) == IF i < 0 THEN -i ELSE i

(***************************************************************************)
(* float64 arithmetic of the BFGS update, exact.                           *)
(***************************************************************************)
RECURSIVE GCD(_, _)
GCD(a, b) == IF b = 0 THEN a ELSE GCD(b, a % b)

NaN == <<0, 0>>
IsNaN(r) == r[2] = 0

Rat(n, d) ==
    IF d = 0 THEN NaN
    ELSE LET g == GCD(Abs(n), Abs(d))
             s == IF d < 0 THEN -1 ELSE 1
         IN  <<(s * n) \div g, (s * d) \div g>>

R(i) == <<i, 1>>

RNeg(p) == IF IsNaN(p) THEN NaN ELSE <<-p[1], p[2]>>

RAdd(p, q) ==
    IF IsNaN(p) \/ IsNaN(q) THEN NaN
    ELSE LET g == GCD(p[2], q[2])
         IN  Rat(p[1] * (q[2] \div g) + q[1] * (p[2] \div g), (p[2] \div g) * q[2])

RSub(p, q) == RAdd(p, RNeg(q))

RMul(p, q) ==
    IF IsNaN(p) \/ IsNaN(q) THEN NaN
    ELSE LET g1 == GCD(Abs(p[1]), q[2])
             g2 == GCD(Abs(q[1]), p[2])
         IN  Rat((p[1] \div g1) * (q[1] \div g2), (p[2] \div g2) * (q[2] \div g1))

\* x / 0 is +Inf, -Inf or NaN in float64: non-finite in every case.
RDiv(p, q) ==
    IF IsNaN(p) \/ IsNaN(q) \/ q[1] = 0 THEN NaN
    ELSE RMul(p, Rat(q[2], q[1]))

RECURSIVE RSum(_, _)
RSum(f, n) == IF n = 0 THEN R(0) ELSE RAdd(RSum(f, n - 1), f[n])

RECURSIVE ISum(_, _)
ISum(f, n) == IF n = 0 THEN 0 ELSE ISum(f, n - 1) + f[n]

\* The sequence f[1], ..., f[n] as an explicit tuple.
RECURSIVE Tup(_, _)
Tup(f, n) == IF n = 0 THEN <<>> ELSE Append(Tup(f, n - 1), f[n])

(***************************************************************************)
(* Slices and package floats.                                              *)
(***************************************************************************)
ToRat(v) == Tup([i \in 1..Len(v) |-> R(v[i])], Len(v))
Zeros(n) == Tup([i \in 1..n |-> R(0)], n)

\* the built-in copy(dst, src): the first min(len) elements are copied
CopyTo(dst, src) ==
    Tup([i \in 1..Len(dst) |-> IF i <= Len(src) THEN src[i] ELSE dst[i]], Len(dst))

\* floats.Scale(-1, v)
ScaleNeg(v) == Tup([i \in 1..Len(v) |-> RNeg(v[i])], Len(v))

\* floats.SubTo(dst, s, t) on whole-number vectors of one length
SubTo(s, t) == Tup([i \in 1..Len(s) |-> s[i] - t[i]], Len(s))

\* floats.Dot on whole-number vectors
Dot(a, b) == ISum([i \in 1..Len(a) |-> a[i] * b[i]], Len(a))

\* floats.Dot on rational vectors
RDot(a, b) == RSum([i \in 1..Len(a) |-> RMul(a[i], b[i])], Len(a))

\* resize(x, dim): a slice of length dim, the old one when it is long enough
Resize(x, dim) ==
    IF dim > Len(x) THEN Tup([i \in 1..dim |-> 0], dim) ELSE SubSeq(x, 1, dim)

(***************************************************************************)
(* mat64.SymDense over a flat backing array, row-major with stride n;      *)
(* only the upper triangle is read and written.                            *)
(***************************************************************************)
Idx(n, i, j) == (Min(i, j) - 1) * n + Max(i, j)
SymAt(data, n, i, j) == data[Idx(n, i, j)]

\* the slots of the backing array that are upper-triangle entries
IsUpper(n, k) == \E i \in 1..n : \E j \in i..n : k = Idx(n, i, j)
RowOf(n, k) == ((k - 1) \div n) + 1
ColOf(n, k) == ((k - 1) % n) + 1

\* mat64.Inner(x, A, y) = x' A y
Inner(x, data, n, y) ==
    RSum([i \in 1..n |->
            RSum([j \in 1..n |-> RMul(RMul(R(x[i]), SymAt(data, n, i, j)), R(y[j]))], n)], n)

\* Vector.MulVec(A, false, x) = A x
MulVec(data, n, x) ==
    Tup([i \in 1..n |-> RSum([j \in 1..n |-> RMul(SymAt(data, n, i, j), x[j])], n)], n)

\* SymDense.RankTwo(a, alpha, x, y) = a + alpha (x y' + y x')
RankTwo(data, n, alpha, x, y) ==
    Tup([k \in 1..Len(data) |->
            IF k <= n * n /\ IsUpper(n, k)
            THEN LET i == RowOf(n, k)
                     j == ColOf(n, k)
                 IN  RAdd(data[k], RMul(alpha, RAdd(RMul(x[i], y[j]), RMul(y[i], x[j]))))
            ELSE data[k]], Len(data))

\* SymDense.SymRankOne(a, alpha, x) = a + alpha x x'
SymRankOne(data, n, alpha, x) ==
    Tup([k \in 1..Len(data) |->
            IF k <= n * n /\ IsUpper(n, k)
            THEN RAdd(data[k], RMul(alpha, RMul(x[RowOf(n, k)], x[ColOf(n, k)])))
            ELSE data[k]], Len(data))

(***************************************************************************)
(* BFGS                                                                    *)
(***************************************************************************)
\* the zero value of the struct
ZeroBFGS ==
    [linesearch |-> FALSE, dim |-> 0, x |-> <<>>, grad |-> <<>>,
     y |-> <<>>, s |-> <<>>, tmpData |-> <<>>,
     alloc |-> FALSE, data |-> <<>>, first |-> FALSE]

NoAttempts == <<>>

\* what a call hands back: the receiver, the caller's location and direction
\* buffer as the call leaves them, and the outcome
Outcome(obj, l, d, status, path, step, attempts, B) ==
    [obj |-> obj, loc |-> l, dir |-> d,
     ret |-> [status |-> status, path |-> path, step |-> step,
              attempts |-> attempts, B |-> B]]

\* 1 / floats.Norm(dir, 2): the reciprocal square root of dir.dir
InvNorm(d) == <<"rsqrt", RDot(d, d)>>
StepOne == <<"rat", R(1)>>
NoStep == <<"none", R(0)>>

\* lines 76-80: a new zeroed array, or the first dim*dim slots of the old one
InvHessStorage(b, dim) ==
    IF ~b.alloc \/ Len(b.data) < dim * dim THEN Zeros(dim * dim) ELSE b.data

BFGSInitDirection(b, l, d) ==
    LET dim == Len(l.X)
        dir1 == ScaleNeg(CopyTo(d, ToRat(l.Gradient)))
        b1 == [b EXCEPT !.dim = dim,
                        !.x = CopyTo(Resize(b.x, dim), l.X),
                        !.grad = CopyTo(Resize(b.grad, dim), l.Gradient),
                        !.y = Resize(b.y, dim),
                        !.s = Resize(b.s, dim),
                        !.tmpData = IF dim > Len(b.tmpData) THEN Zeros(dim)
                                    ELSE SubSeq(b.tmpData, 1, dim),
                        !.alloc = TRUE,
                        !.data = InvHessStorage(b, dim),
                        !.first = TRUE]
    IN  Outcome(b1, l, dir1, "ok", "gradient", InvNorm(dir1), NoAttempts, <<>>)

\* the rescaling that sets the diagonal only
RescaleDiagonalOnly(data, n, scale) ==
    Tup([k \in 1..Len(data) |->
            IF k <= n * n /\ IsUpper(n, k) /\ RowOf(n, k) = ColOf(n, k)
            THEN scale
            ELSE data[k]], Len(data))

\* lines 115-130: invHess = scale * I, written through SetSym
RescaleInitial(data, n, scale) ==
    Tup([k \in 1..Len(data) |->
            IF k <= n * n /\ IsUpper(n, k)
            THEN (IF RowOf(n, k) = ColOf(n, k) THEN scale ELSE R(0))
            ELSE data[k]], Len(data))

\* the constant divided by s.y instead of its square
FirstTermConstNoSquare(sDotY, yBy) == RDiv(RAdd(R(sDotY), yBy), R(sDotY))

\* line 144
FirstTermConst(sDotY, yBy) == RDiv(RAdd(R(sDotY), yBy), R(sDotY * sDotY))

\* lines 143-148: the rank-two and the rank-one update of invHess
BFGSUpdate(data, n, s, y) ==
    LET sDotY == Dot(s, y)
        yBy == Inner(y, data, n, y)
        firstTermConst == FirstTermConst(sDotY, yBy)
        tmp == MulVec(data, n, ToRat(y))
        two == RankTwo(data, n, RDiv(R(-1), R(sDotY)), tmp, ToRat(s))
    IN  [tmp |-> tmp, data |-> SymRankOne(two, n, firstTermConst, ToRat(s))]

BFGSNextDirection(b, l, d) ==
    IF Len(l.X) # b.dim \/ Len(l.Gradient) # b.dim \/ Len(d) # b.dim
    THEN Outcome(b, l, d, "panic", "panic", NoStep, NoAttempts, <<>>)
    ELSE LET y == SubTo(l.Gradient, b.grad)
             s == SubTo(l.X, b.x)
             sDotY == Dot(s, y)
             scale == RDiv(R(sDotY), R(Dot(y, y)))
             B == IF b.first THEN RescaleInitial(b.data, b.dim, scale) ELSE b.data
             u == BFGSUpdate(B, b.dim, s, y)
             b1 == [b EXCEPT !.y = y, !.s = s, !.tmpData = u.tmp, !.data = u.data,
                             !.first = FALSE, !.x = CopyTo(b.x, l.X),
                             !.grad = CopyTo(b.grad, l.Gradient)]
             dir1 == ScaleNeg(MulVec(u.data, b.dim, ToRat(l.Gradient)))
         IN  Outcome(b1, l, dir1, "ok", "bfgs", StepOne, NoAttempts, B)

(***************************************************************************)
(* Newton.  A matrix is a sequence of rows of whole thousandths.           *)
(***************************************************************************)
\* the n x n matrix with entries f[i][j], as explicit rows
Mat(f, n) == Tup([i \in 1..n |-> Tup(f[i], n)], n)

ZeroMat(n) == Mat([i \in 1..n |-> [j \in 1..n |-> 0]], n)

ZeroNewton(inc) ==
    [Increase |-> inc, linesearch |-> FALSE, dim |-> 0, hess |-> <<>>,
     chol |-> [pd |-> FALSE, a |-> <<>>], tau |-> 0]

\* SymDense.CopySym: the overlap of the two matrices is copied
CopySym(dst, a) ==
    Mat([i \in 1..Len(dst) |-> [j \in 1..Len(dst) |->
            IF i <= Len(a) /\ j <= Len(a) THEN a[i][j] ELSE dst[i][j]]], Len(dst))

\* lines 96-102: the smallest of the first dim diagonal entries
RECURSIVE MinDiag(_, _)
MinDiag(h, dim) ==
    IF dim = 1 THEN h[1][1] ELSE Min(MinDiag(h, dim - 1), h[dim][dim])

\* the seed without the 0.001 added
SeedTauExact(tau, minA) ==
    IF minA > 0 THEN 0
    ELSE IF tau = 0 THEN -minA
    ELSE tau

\* lines 108-112
SeedTau(tau, minA) ==
    IF minA > 0 THEN 0
    ELSE IF tau = 0 THEN -minA + 1
    ELSE tau

\* the diagonal taken from the scratch matrix, so that tau accumulates
AddIdentityAccumulate(hess, H, dim, tau) ==
    IF tau # 0
    THEN Mat([i \in 1..Len(hess) |-> [j \in 1..Len(hess) |->
                IF i = j /\ i <= dim THEN hess[i][i] + tau ELSE hess[i][j]]], Len(hess))
    ELSE hess

\* lines 115-120: the diagonal is set from the location's Hessian
AddIdentity(hess, H, dim, tau) ==
    IF tau # 0
    THEN Mat([i \in 1..Len(hess) |-> [j \in 1..Len(hess) |->
                IF i = j /\ i <= dim THEN H[i][i] + tau ELSE hess[i][j]]], Len(hess))
    ELSE hess

\* TriDense.Cholesky: whether every pivot of the factorization is positive.
\* The second pivot is a22 - a12^2 / a11.
Cholesky(a) ==
    /\ a[1][1] > 0
    /\ Len(a) = 2 => a[2][2] > (a[1][2] * a[1][2]) \div a[1][1]

\* Increase added to tau instead of multiplying it
IncreaseTauAdd(inc, tau) == Max(inc[1] \div inc[2] + tau, 1)

\* the increase without the floor of 0.001
IncreaseTauNoFloor(inc, tau) == (inc[1] * tau) \div inc[2]

\* line 131: math.Max(n.Increase * n.tau, 0.001)
IncreaseTau(inc, tau) == Max((inc[1] * tau) \div inc[2], 1)

\* lines 114-132: the attempts, each recorded with the tau and the matrix
\* handed to Cholesky
RECURSIVE Modify(_, _, _, _, _, _, _)
Modify(k, inc, H, dim, tau, hess, trace) ==
    IF k >= maxNewtonModifications
    THEN [pd |-> FALSE, tau |-> tau, hess |-> hess, trace |-> trace]
    ELSE LET h1 == AddIdentity(hess, H, dim, tau)
             pd == Cholesky(h1)
             t1 == Append(trace, [tau |-> tau, hess |-> h1, pd |-> pd])
         IN  IF pd
             THEN [pd |-> TRUE, tau |-> tau, hess |-> h1, trace |-> t1]
             ELSE Modify(k + 1, inc, H, dim, IncreaseTau(inc, tau), h1, t1)

\* Vector.SolveCholeskyVec: the x with A x = b, A the factored matrix
SolveCholeskyVec(a, b) ==
    IF Len(a) = 1
    THEN <<Rat(b[1] * Milli, a[1][1])>>
    ELSE LET det == a[1][1] * a[2][2] - a[1][2] * a[1][2]
         IN  <<Rat((a[2][2] * b[1] - a[1][2] * b[2]) * Milli, det),
               Rat((a[1][1] * b[2] - a[1][2] * b[1]) * Milli, det)>>

\* the fallback with floats.Scale left out
FallbackNoScale(l, d) == [loc |-> l, dir |-> CopyTo(d, ToRat(l.Gradient))]

\* the fallback negating the caller's gradient in place before copying it
FallbackScaleGradient(l, d) ==
    LET g == Tup([i \in 1..Len(l.Gradient) |-> 0 - l.Gradient[i]], Len(l.Gradient))
    IN  [loc |-> [l EXCEPT !.Gradient = g], dir |-> CopyTo(d, ToRat(g))]

\* lines 134-138: copy(dir, loc.Gradient); floats.Scale(-1, dir).  The location
\* and the direction buffer as the two statements leave them.
Fallback(l, d) == [loc |-> l, dir |-> ScaleNeg(CopyTo(d, ToRat(l.Gradient)))]

NewtonNextDirection(n, l, d) ==
    LET dim == Len(l.X)
        hess0 == CopySym(n.hess, l.Hessian)
    IN  IF n.dim = 0 \/ dim > n.dim \/ dim > Len(l.Hessian)
        THEN \* SymDense.At panics on an index out of range
             Outcome([n EXCEPT !.hess = hess0], l, d, "panic", "panic", NoStep,
                     NoAttempts, <<>>)
        ELSE LET minA == MinDiag(hess0, dim)
                 m == Modify(0, n.Increase, l.Hessian, dim, SeedTau(n.tau, minA),
                             hess0, <<>>)
                 n1 == [n EXCEPT !.hess = m.hess, !.tau = m.tau,
                                 !.chol = [pd |-> m.pd, a |-> m.hess]]
             IN  IF ~m.pd
                 THEN Outcome(n1, Fallback(l, d).loc, Fallback(l, d).dir, "ok",
                              "fallback", StepOne, m.trace, <<>>)
                 ELSE IF Len(d) # dim \/ Len(l.Gradient) # dim \/ n.dim # dim
                 THEN \* mat64.NewVector and SolveCholeskyVec panic on a length
                      \* that is not dim
                      Outcome(n1, l, d, "panic", "panic", NoStep, m.trace, <<>>)
                 ELSE Outcome(n1, l, ScaleNeg(SolveCholeskyVec(m.hess, l.Gradient)),
                              "ok", "cholesky", StepOne, m.trace, <<>>)

NewtonInitDirection(n, l, d) ==
    LET dim == Len(l.X)
    IN  NewtonNextDirection(
            [n EXCEPT !.dim = dim, !.chol = [pd |-> FALSE, a |-> ZeroMat(dim)],
                      !.hess = ZeroMat(dim), !.tau = 0], l, d)

RLeq(p, q) == p[1] * q[2] <= q[1] * p[2]
RLt(p, q) == p[1] * q[2] < q[1] * p[2]

\* the check with < in place of <=
CheckIncreaseLt(inc) ==
    IF inc = R(0) THEN "defaulted"
    ELSE IF RLt(inc, R(1)) THEN "panic"
    ELSE "kept"

\* lines 58-63: "defaulted", "panic" or "kept"
CheckIncrease(inc) ==
    IF inc = R(0) THEN "defaulted"
    ELSE IF RLeq(inc, R(1)) THEN "panic"
    ELSE "kept"

\* Newton.Init; Linesearch.Init asks the strategy for its first direction
NewtonInitCall(n, l, d) ==
    LET v == CheckIncrease(n.Increase)
        n1 == [n EXCEPT !.Increase = IF v = "defaulted" THEN R(DefaultIncrease) ELSE @]
    IN  IF v = "panic"
        THEN Outcome(n, l, d, "panic", "config", NoStep, NoAttempts, <<>>)
        ELSE NewtonInitDirection([n1 EXCEPT !.linesearch = TRUE], l, d)

\* BFGS.Init
BFGSInitCall(b, l, d) == BFGSInitDirection([b EXCEPT !.linesearch = TRUE], l, d)

(***************************************************************************)
(* The driver: what it configures and the locations it supplies.           *)
(***************************************************************************)
Methods == {"BFGS", "Newton"}

\* Newton.Increase as configured: unset, 1/2, 1, -1, 2 and 5
Increases == {R(0), Rat(1, 2), R(1), R(-1), R(2), R(5)}

Dims == {1, 2}

BFGSX(n) == IF n = 1 THEN {<<0>>, <<1>>} ELSE {<<0, 0>>, <<1, 1>>, <<1, 0>>}
BFGSGradient(n) == IF n = 1 THEN {<<-1>>, <<2>>} ELSE {<<2, 1>>, <<-1, 1>>}

NewtonX(n) == IF n = 1 THEN <<1>> ELSE <<1, 1>>
NewtonGradient(n) == IF n = 1 THEN <<-1>> ELSE <<1, -2>>
\* in thousandths: 1x1 Hessians -525, -1, 0 and 2; 2x2 Hessians diag(-1, 2),
\* [[1, 2], [2, 1]], [[0, 2], [2, 0]] and diag(2, 1)
NewtonHessian(n) ==
    IF n = 1
    THEN {<<<<-525000>>>>, <<<<-1000>>>>, <<<<0>>>>, <<<<2000>>>>}
    ELSE {<<<<-1000, 0>>, <<0, 2000>>>>, <<<<1000, 2000>>, <<2000, 1000>>>>,
          <<<<0, 2000>>, <<2000, 0>>>>, <<<<2000, 0>>, <<0, 1000>>>>}

Location(x, g, h) == [X |-> x, Gradient |-> g, Hessian |-> h]
NoLocation == Location(<<>>, <<>>, <<>>)

\* a location whose position has length nx and whose gradient has length ng
BFGSLocations(nx, ng) ==
    {Location(x, g, <<>>) : x \in BFGSX(nx), g \in BFGSGradient(ng)}
NewtonLocations(nx, ng) ==
    {Location(NewtonX(nx), NewtonGradient(ng), h) : h \in NewtonHessian(nx)}

VARIABLES
    method,   \* the strategy this run uses
    phase,    \* "new", "running" or "panicked"
    calls,    \* calls made so far
    bfgs,     \* the BFGS value
    newton,   \* the Newton value
    loc,      \* the caller's Location, as the last call left it
    dir,      \* the caller's direction buffer
    ret,      \* the outcome of the last call
    op,       \* the last call: "none", "Init" or "NextDirection"
    arg       \* what the last call was given, and the strategy before it

vars == <<method, phase, calls, bfgs, newton, loc, dir, ret, op, arg>>

NoRet == [status |-> "none", path |-> "none", step |-> NoStep,
          attempts |-> NoAttempts, B |-> <<>>]

\* the line search's direction buffer, resized to n
DirBuffer(n) == IF Len(dir) = n THEN dir ELSE Zeros(n)

Init ==
    /\ method \in Methods
    /\ phase = "new"
    /\ calls = 0
    /\ bfgs = ZeroBFGS
    /\ \E inc \in Increases :
          newton = ZeroNewton(IF method = "Newton" THEN inc ELSE R(0))
    /\ loc = NoLocation
    /\ dir = <<>>
    /\ ret = NoRet
    /\ op = "none"
    /\ arg = [loc |-> NoLocation, dir |-> <<>>, bfgs |-> bfgs, newton |-> newton]

Returned(o, name, l, d) ==
    /\ loc' = o.loc
    /\ dir' = o.dir
    /\ ret' = o.ret
    /\ op' = name
    /\ arg' = [loc |-> l, dir |-> d, bfgs |-> bfgs, newton |-> newton]
    /\ phase' = IF o.ret.status = "panic" THEN "panicked" ELSE "running"
    /\ calls' = calls + 1
    /\ method' = method

BFGSInit ==
    /\ method = "BFGS" /\ phase \in {"new", "running"} /\ calls < MaxCalls
    /\ \E n \in Dims : \E l \in BFGSLocations(n, n) :
          LET o == BFGSInitCall(bfgs, l, DirBuffer(n))
          IN  /\ bfgs' = o.obj
              /\ Returned(o, "Init", l, DirBuffer(n))
    /\ UNCHANGED newton

BFGSNext ==
    /\ method = "BFGS" /\ phase = "running" /\ calls < MaxCalls
    /\ \E nx \in Dims, ng \in Dims, nd \in Dims : \E l \in BFGSLocations(nx, ng) :
          LET o == BFGSNextDirection(bfgs, l, DirBuffer(nd))
          IN  /\ bfgs' = o.obj
              /\ Returned(o, "NextDirection", l, DirBuffer(nd))
    /\ UNCHANGED newton

NewtonInit ==
    /\ method = "Newton" /\ phase \in {"new", "running"} /\ calls < MaxCalls
    /\ \E n \in Dims : \E l \in NewtonLocations(n, n) :
          LET o == NewtonInitCall(newton, l, DirBuffer(n))
          IN  /\ newton' = o.obj
              /\ Returned(o, "Init", l, DirBuffer(n))
    /\ UNCHANGED bfgs

\* the position and the Hessian keep the established dimension; the gradient
\* and the direction buffer may have another length
NewtonNext ==
    /\ method = "Newton" /\ phase = "running" /\ calls < MaxCalls
    /\ \E ng \in Dims, nd \in Dims : \E l \in NewtonLocations(newton.dim, ng) :
          LET o == NewtonNextDirection(newton, l, DirBuffer(nd))
          IN  /\ newton' = o.obj
              /\ Returned(o, "NextDirection", l, DirBuffer(nd))
    /\ UNCHANGED bfgs

Next == BFGSInit \/ BFGSNext \/ NewtonInit \/ NewtonNext

Spec == Init /\ [][Next]_vars

(***************************************************************************)
(* Vocabulary of the properties.                                           *)
(***************************************************************************)
IsBFGS == method = "BFGS"
IsNewton == method = "Newton"

\* the dimension n the strategy held when the last call was made
Established == IF IsBFGS THEN arg.bfgs.dim ELSE arg.newton.dim

\* the last call was a NextDirection whose position, gradient or direction
\* buffer did not have the established length
Mismatched ==
    /\ op = "NextDirection"
    /\ \/ Len(arg.loc.X) # Established
       \/ Len(arg.loc.Gradient) # Established
       \/ Len(arg.dir) # Established

\* the last call met the length contract: position, gradient, Hessian and
\* direction buffer all of one dimension
WellFormed ==
    /\ op # "none"
    /\ Len(arg.loc.Gradient) = Len(arg.loc.X)
    /\ Len(arg.dir) = Len(arg.loc.X)
    /\ op = "NextDirection" => Len(arg.loc.X) = Established

\* the exact negative of a whole-number vector
Negative(g) == Tup([i \in 1..Len(g) |-> R(-g[i])], Len(g))

\* Newton: the last call ran the modification loop
Attempted == IsNewton /\ op # "none" /\ ret.attempts # <<>>
LastAttempt == ret.attempts[Len(ret.attempts)]
AllFailed ==
    /\ Len(ret.attempts) = maxNewtonModifications
    /\ \A k \in 1..Len(ret.attempts) : ~ret.attempts[k].pd

\* tau before the call's diagonal test: 0 after InitDirection's reset
TauPrev == IF op = "Init" THEN 0 ELSE arg.newton.tau

\* the smallest diagonal entry of the supplied Hessian
SuppliedMinA ==
    LET H == arg.loc.Hessian
    IN  CHOOSE m \in {H[i][i] : i \in 1..Len(H)} : \A i \in 1..Len(H) : m <= H[i][i]

\* H + t I
Shifted(H, t) ==
    Mat([i \in 1..Len(H) |-> [j \in 1..Len(H) |->
            IF i = j THEN H[i][j] + t ELSE H[i][j]]], Len(H))

\* a symmetric matrix of dimension 1 or 2 has no negative eigenvalue
PositiveSemidefinite(a) ==
    /\ a[1][1] >= 0
    /\ Len(a) = 2 =>
          /\ a[2][2] >= 0
          /\ IF a[1][1] = 0 THEN a[1][2] = 0
             ELSE a[2][2] >= (a[1][2] * a[1][2] + a[1][1] - 1) \div a[1][1]

\* b^e, or cap when that is smaller
RECURSIVE CappedPower(_, _, _)
CappedPower(b, e, cap) ==
    IF e = 0 THEN 1
    ELSE LET q == CappedPower(b, e - 1, cap)
         IN  IF q > cap \div b THEN cap ELSE Min(cap, b * q)

\* 1e6 in thousandths
EigenvalueBound == Milli * Milli * Milli

\* the supplied Hessian has a negative eigenvalue, none below -1e6
IndefiniteWithinBound ==
    /\ ~PositiveSemidefinite(arg.loc.Hessian)
    /\ PositiveSemidefinite(Shifted(arg.loc.Hessian, EigenvalueBound))

\* 0.001 * Increase^18, the largest tau every call is sure to try, exceeds the
\* magnitude of the most negative eigenvalue
WithinReach ==
    Cholesky(Shifted(arg.loc.Hessian,
                     CappedPower(newton.Increase[1] \div newton.Increase[2],
                                 maxNewtonModifications - 2, EigenvalueBound + 1)))

(***************************************************************************)
(* C1.  After InitDirection has established dimension n, a NextDirection   *)
(* whose position, gradient or direction buffer has another length panics  *)
(* and leaves the direction buffer alone, for BFGS and for Newton.          *)
(* Newton.NextDirection has no length check: when every factorization      *)
(* fails it copies the gradient into the buffer and returns.                *)
(***************************************************************************)
C1_MismatchPanics ==
    Mismatched => ret.status = "panic" /\ dir = arg.dir

\* the half of C1 that BFGS.NextDirection (lines 94-102) enforces
C1_BFGSMismatchPanics ==
    IsBFGS /\ Mismatched => ret.status = "panic" /\ dir = arg.dir /\ bfgs = arg.bfgs

(***************************************************************************)
(* C2.  Newton.Init validates the configured Increase before anything      *)
(* else: 0 becomes 5; any other value <= 1 panics with the strategy, the   *)
(* line search and the direction buffer untouched and no factorization     *)
(* attempted; a value > 1 is kept.  Every direction is computed with       *)
(* Increase > 1.                                                           *)
(***************************************************************************)
C2_IncreaseValidated ==
    /\ IsNewton /\ op = "Init" =>
          LET inc == arg.newton.Increase
          IN  /\ inc = R(0) =>
                    newton.Increase = R(DefaultIncrease) /\ ret.path # "config"
              /\ inc # R(0) /\ RLeq(inc, R(1)) =>
                    /\ ret.status = "panic" /\ ret.path = "config"
                    /\ newton = arg.newton /\ ~newton.linesearch
                    /\ dir = arg.dir /\ ret.attempts = <<>>
              /\ RLt(R(1), inc) => newton.Increase = inc /\ ret.path # "config"
    /\ IsNewton /\ op # "none" /\ ret.path # "config" =>
          RLt(R(1), newton.Increase) /\ newton.linesearch

C2_Witness ==
    /\ IsNewton /\ op = "Init" /\ arg.newton.Increase = Rat(1, 2)
    /\ ret.status = "panic"

(***************************************************************************)
(* C3.  A Newton call takes the fallback exactly when all                  *)
(* maxNewtonModifications attempts failed; it then returns normally with   *)
(* step scale 1 and, the buffer having the gradient's length, with the     *)
(* direction equal to the exact negative of the gradient.  A call with a   *)
(* successful attempt returns the Cholesky solution instead.               *)
(***************************************************************************)
C3_Fallback ==
    Attempted =>
        /\ ret.path = "fallback" <=> AllFailed
        /\ AllFailed =>
              /\ ret.status = "ok" /\ ret.step = StepOne
              /\ Len(dir) = Len(arg.dir)
              /\ \A i \in 1..Min(Len(dir), Len(loc.Gradient)) :
                    dir[i] = R(-loc.Gradient[i])
              /\ Len(arg.dir) = Len(loc.Gradient) => dir = Negative(loc.Gradient)
        /\ ~AllFailed /\ ret.status = "ok" =>
              /\ ret.path = "cholesky" /\ LastAttempt.pd
              /\ Len(ret.attempts) <= maxNewtonModifications

C3_Witness ==
    /\ Attempted /\ AllFailed /\ WellFormed
    /\ ret.path = "fallback" /\ dir = Negative(loc.Gradient)

(***************************************************************************)
(* C4, as claimed.  For every Increase > 1 and every carried tau, a call   *)
(* on a Hessian with a negative eigenvalue, none below -1e6, finds a       *)
(* positive definite Hessian + tau*I within the 20 attempts.               *)
(***************************************************************************)
C4_AnyIncreaseConverges ==
    Attempted /\ IndefiniteWithinBound => ret.path # "fallback"

(***************************************************************************)
(* C4, amended.  The same, provided 0.001 * Increase^18 exceeds the        *)
(* magnitude of the most negative eigenvalue: the loop then reaches a      *)
(* positive definite matrix and the fallback is not taken.                 *)
(***************************************************************************)
C4_ConvergesWithinReach ==
    Attempted /\ IndefiniteWithinBound /\ WithinReach =>
        /\ ret.path # "fallback"
        /\ LastAttempt.pd
        /\ Cholesky(Shifted(arg.loc.Hessian, newton.tau))

C4_Witness ==
    /\ Attempted /\ IndefiniteWithinBound /\ WithinReach
    /\ Len(ret.attempts) > 2 /\ ret.path = "cholesky"

(***************************************************************************)
(* C5.  The tau of a call's first attempt is 0 when the smallest diagonal  *)
(* entry minA of the supplied Hessian is positive, -minA + 0.001 when      *)
(* minA <= 0 and the carried tau is 0, and the carried tau otherwise; so   *)
(* tau is 0 after a call only if minA > 0.  Hessian diag(-1, 2) with       *)
(* carried tau 0 gives tau 1.001 and one attempt, on diag(0.001, 3.001),   *)
(* which succeeds.                                                         *)
(***************************************************************************)
C5_FirstTau ==
    Attempted =>
        /\ ret.attempts[1].tau =
              IF SuppliedMinA > 0 THEN 0
              ELSE IF TauPrev = 0 THEN -SuppliedMinA + 1
              ELSE TauPrev
        /\ newton.tau = 0 => SuppliedMinA > 0
        /\ arg.loc.Hessian = <<<<-1000, 0>>, <<0, 2000>>>> /\ TauPrev = 0 =>
              ret.attempts = <<[tau |-> 1001,
                                hess |-> <<<<1, 0>>, <<0, 3001>>>>,
                                pd |-> TRUE]>>

C5_Witness ==
    /\ Attempted /\ op = "NextDirection" /\ TauPrev = 0
    /\ arg.loc.Hessian = <<<<-1000, 0>>, <<0, 2000>>>>
    /\ newton.tau = 1001 /\ ret.path = "cholesky"

(***************************************************************************)
(* C6.  No call changes the Location it is given: after every Init and     *)
(* NextDirection of either strategy, X, Gradient and Hessian are what      *)
(* they were before the call.                                              *)
(***************************************************************************)
C6_LocationUnchanged == op # "none" => loc = arg.loc

C6_Witness ==
    /\ IsNewton /\ op = "NextDirection" /\ ret.path = "fallback"
    /\ dir # arg.dir /\ loc = arg.loc

(***************************************************************************)
(* C7.  For finite symmetric B and s.y # 0, the invHess left by the        *)
(* rank-two and rank-one updates is                                        *)
(*   B - (B y s' + s y' B)/(s'y) + (1 + y'By/(s'y)) (s s')/(s'y),          *)
(* it is symmetric, and it satisfies the secant equation invHess y = s.    *)
(***************************************************************************)
StandardUpdate(B, n, s, y, i, j) ==
    LET sy == R(Dot(s, y))
        By == MulVec(B, n, ToRat(y))
        yBy == RDot(ToRat(y), By)
    IN  RAdd(RSub(SymAt(B, n, i, j),
                  RDiv(RAdd(RMul(By[i], R(s[j])), RMul(R(s[i]), By[j])), sy)),
             RMul(RAdd(R(1), RDiv(yBy, sy)), RDiv(R(s[i] * s[j]), sy)))

Updated ==
    /\ IsBFGS /\ op = "NextDirection" /\ ret.status = "ok"
    /\ Dot(bfgs.s, bfgs.y) # 0
    /\ \A i \in 1..bfgs.dim, j \in 1..bfgs.dim : ~IsNaN(SymAt(ret.B, bfgs.dim, i, j))

C7_StandardUpdate ==
    Updated =>
        LET n == bfgs.dim
        IN  /\ \A i \in 1..n, j \in 1..n :
                  /\ SymAt(bfgs.data, n, i, j) =
                        StandardUpdate(ret.B, n, bfgs.s, bfgs.y, i, j)
                  /\ SymAt(bfgs.data, n, i, j) = SymAt(bfgs.data, n, j, i)
            /\ MulVec(bfgs.data, n, ToRat(bfgs.y)) = ToRat(bfgs.s)

C7_Witness ==
    /\ Updated /\ bfgs.dim = 2 /\ ~arg.bfgs.first
    /\ Dot(bfgs.s, bfgs.y) \notin {-1, 1}
    /\ SymAt(ret.B, 2, 1, 2) # R(0)

(***************************************************************************)
(* C8.  BFGS.InitDirection sets first, writes dir = -gradient and caches   *)
(* the location's x and gradient.  The first NextDirection after it        *)
(* overwrites every entry of invHess with scale*I, scale = (s.y)/(y.y),    *)
(* applies the update to that and clears first; a later NextDirection      *)
(* updates the carried invHess as it is.  The direction of the first       *)
(* NextDirection is the one a new BFGS value computes from the same two    *)
(* locations, whatever the reused storage held.                            *)
(***************************************************************************)
FreshFirstDirection ==
    LET n == arg.bfgs.dim
        fresh == BFGSInitDirection(ZeroBFGS, Location(arg.bfgs.x, arg.bfgs.grad, <<>>),
                                   Zeros(n)).obj
    IN  BFGSNextDirection(fresh, arg.loc, Zeros(n)).dir

C8_InitialScaling ==
    /\ IsBFGS /\ op = "Init" =>
          /\ bfgs.first
          /\ dir = Negative(loc.Gradient)
          /\ bfgs.x = loc.X /\ bfgs.grad = loc.Gradient
    /\ IsBFGS /\ op = "NextDirection" /\ ret.status = "ok" =>
          LET n == bfgs.dim
              scale == RDiv(R(Dot(bfgs.s, bfgs.y)), R(Dot(bfgs.y, bfgs.y)))
          IN  /\ ~bfgs.first
              /\ bfgs.s = SubTo(loc.X, arg.bfgs.x)
              /\ bfgs.y = SubTo(loc.Gradient, arg.bfgs.grad)
              /\ arg.bfgs.first =>
                    /\ \A i \in 1..n, j \in 1..n :
                          SymAt(ret.B, n, i, j) = IF i = j THEN scale ELSE R(0)
                    /\ dir = FreshFirstDirection
              /\ ~arg.bfgs.first => ret.B = arg.bfgs.data

\* a first NextDirection on storage that an earlier run left non-zero
C8_Witness ==
    /\ IsBFGS /\ op = "NextDirection" /\ ret.status = "ok"
    /\ arg.bfgs.first /\ bfgs.dim = 2
    /\ arg.bfgs.data[2] \notin {R(0), NaN}
    /\ Dot(bfgs.s, bfgs.y) # 0
    /\ dir = FreshFirstDirection

(***************************************************************************)
(* C9.  Every matrix a Newton call hands to Cholesky is the supplied       *)
(* Hessian plus the current tau on the diagonal, off-diagonal entries      *)
(* untouched and nothing accumulated.  On success the direction d solves   *)
(* (Hessian + tau*I) d = -gradient for the tau of the successful attempt   *)
(* and the step scale is 1.                                                *)
(***************************************************************************)
Solves(H, t, d, g) ==
    \A i \in 1..Len(H) :
        RSum([j \in 1..Len(H) |-> RMul(Rat(Shifted(H, t)[i][j], Milli), d[j])], Len(H))
            = R(-g[i])

C9_RegularizedSystem ==
    Attempted =>
        /\ \A k \in 1..Len(ret.attempts) :
              ret.attempts[k].hess = Shifted(arg.loc.Hessian, ret.attempts[k].tau)
        /\ ret.path = "cholesky" =>
              /\ LastAttempt.pd /\ LastAttempt.tau = newton.tau
              /\ newton.hess = Shifted(arg.loc.Hessian, newton.tau)
              /\ Solves(arg.loc.Hessian, newton.tau, dir, arg.loc.Gradient)
              /\ ret.step = StepOne

C9_Witness ==
    /\ Attempted /\ ret.path = "cholesky" /\ Len(ret.attempts) > 3
    /\ Len(arg.loc.Hessian) = 2 /\ arg.loc.Hessian[1][2] # 0
    /\ Solves(arg.loc.Hessian, newton.tau, dir, arg.loc.Gradient)

(***************************************************************************)
(* C10.  tau is 0 or at least 0.001 in every state.  Within a call each    *)
(* failed attempt replaces tau by max(Increase*tau, 0.001), so the taus    *)
(* tried strictly increase; a call that succeeds leaves tau at the value   *)
(* of the successful attempt; a call that exhausts the attempts leaves     *)
(* the value after the last increase, and that value seeds the next call   *)
(* when its smallest diagonal entry is <= 0.                               *)
(***************************************************************************)
C10_TauInvariant ==
    /\ newton.tau = 0 \/ newton.tau >= 1
    /\ Attempted =>
          /\ \A k \in 1..(Len(ret.attempts) - 1) :
                /\ ~ret.attempts[k].pd
                /\ ret.attempts[k + 1].tau =
                      Max((newton.Increase[1] * ret.attempts[k].tau)
                              \div newton.Increase[2], 1)
                /\ ret.attempts[k + 1].tau > ret.attempts[k].tau
          /\ LastAttempt.pd => newton.tau = LastAttempt.tau
          /\ AllFailed =>
                /\ newton.tau = Max((newton.Increase[1] * LastAttempt.tau)
                                        \div newton.Increase[2], 1)
                /\ newton.tau > LastAttempt.tau
          /\ op = "NextDirection" /\ SuppliedMinA <= 0 /\ arg.newton.tau # 0 =>
                ret.attempts[1].tau = arg.newton.tau

\* a call seeded by the tau that an exhausted call left
C10_Witness ==
    /\ Attempted /\ op = "NextDirection" /\ SuppliedMinA <= 0
    /\ arg.newton.chol.pd = FALSE /\ arg.newton.tau > Milli
    /\ ret.attempts[1].tau = arg.newton.tau
    /\ LastAttempt.pd /\ newton.tau = LastAttempt.tau

====
